---- MODULE Spec2Model ----
(***************************************************************************)
(* Model of AppController (src/app/core/controller.py) and of the          *)
(* DownloadableQueue aggregate (src/app/data/model.py): one run of         *)
(* start_application is fetch -> find_plex_show -> search_nyaa_for_shows   *)
(* -> the per-torrent decision loop, all inside one try/except.  Runs      *)
(* follow one another and share app_store, the only state that outlives a  *)
(* run.  The collaborators (AniList, Plex, Nyaa, Transmission, AppStore,   *)
(* StorageUtil) are nondeterministic: every call may return any value of   *)
(* its bounded result set or raise.                                        *)
(***************************************************************************)
EXTENDS Integers, Sequences, FiniteSets, TLC

\* ---------------------------------------------------------------- bounds
MaxEntries == 2
MaxItems == 2
MaxResults == 1
MaxCandidates == 2

\* ------------------------------------------------------------ the values
Names == {"X", "Y"}
None == "None"
AnimeInfo == "AnimeInfo"
MediaStatuses == {"NOT_YET_RELEASED", "RELEASING"}
ListStatuses == {"COMPLETED", "CURRENT"}

\* AppConfig values read by the controller
torrent_monitor_directory == "monitor_dir"
torrent_keep_file_after_queuing == FALSE
build_parent_save_path(anime_title) == "save_dir"

\* MediaEntry: entry.media.status and entry.status; id tells entries apart
MediaEntry == [id : 1..MaxEntries, media_status : MediaStatuses, status : ListStatuses]

\* what AniListStore.search can return: distinct entries, possibly none
EntryLists ==
    UNION {{l \in [1..n -> MediaEntry] : \A p \in 1..n : l[p].id = p} : n \in 0..MaxEntries}

\* a plex Show, tagged with the entry whose lookup returned it
Shows(entry, n) == [m \in 1..n |-> [show_of |-> entry.id, n |-> m]]

\* a TorrentInfo: name, anime_info (None or the parsed attributes), is_queued
TorrentInfo(name, info) == [name |-> name, anime_info |-> info, is_queued |-> FALSE]

\* what one nyaa search can return
SearchResults ==
    UNION {[1..n -> {TorrentInfo(nm, inf) : nm \in Names, inf \in {None, AnimeInfo}}] :
             n \in 0..MaxResults}

VARIABLES
    pc,                 \* where start_application stands
    outcome,            \* "none" | "running" | "completed" | "caught" | "propagated"
    raised,             \* the stage whose call raised in this run, or "none"
    anime_list,         \* start_application: anime_list
    entry_index,        \* find_plex_show: position of the for loop
    download_queue,     \* the three lists of find_plex_show / DownloadableQueue
    queue_index,        \* search_nyaa_for_shows: position of the current for loop
    torrent_search_result_list,
    torrent_search_result_list_for_missing_shows,
    search_results,     \* start_application: search_results (is_queued is mutated)
    position,           \* start_application: position of `for torrent_info in`
    app_store,          \* AppStore: the names that have a record
    plex_queries,       \* history: ids given to plex_controller.find_all_by_title
    plex_answers,       \* history: per answered lookup, the shows returned and
                        \*          whether the callback was invoked
    nyaa_searches,      \* history: the nyaa search calls of this run, in order
    calls,              \* history: per torrent, the collaborator calls made for it
    move_calls,         \* history: the arguments of StorageUtil.copy_or_move_file
    move_failed,        \* history: names whose move raised in an earlier run
    download_failed,    \* history: names still without a record whose enqueue and
                        \*          direct download both failed in an earlier run
    pc2,                \* a second, concurrent invocation: where it stands
    search_results2,    \* its search_results
    position2,          \* the position of its `for torrent_info in`
    calls2,             \* history: per torrent of the second invocation, its calls
    after_first         \* history: the second invocation has taken every step so
                        \*          far after the first one had ended

vars == <<pc, outcome, raised, anime_list, entry_index, download_queue,
          queue_index, torrent_search_result_list,
          torrent_search_result_list_for_missing_shows, search_results, position,
          app_store, plex_queries, plex_answers, nyaa_searches, calls, move_calls,
          move_failed, download_failed, pc2, search_results2, position2, calls2,
          after_first>>

find_vars == <<anime_list, entry_index, plex_queries, plex_answers>>
search_vars == <<queue_index, torrent_search_result_list,
                 torrent_search_result_list_for_missing_shows, nyaa_searches>>
decide_vars == <<search_results, position, calls, move_calls>>
second_vars == <<pc2, search_results2, position2, calls2, after_first>>

EmptyQueue ==
    [shows_found_in_plex |-> <<>>, shows_missing_in_plex |-> <<>>,
     show_media_entry_in_plex |-> <<>>]

contains_items_Always(q) == TRUE
\* model.py: DownloadableQueue.contains_items
contains_items(q) ==
    \/ q.shows_found_in_plex # <<>>
    \/ q.shows_missing_in_plex # <<>>
    \/ q.show_media_entry_in_plex # <<>>

Init ==
    /\ pc = "idle"
    /\ outcome = "none"
    /\ raised = "none"
    /\ anime_list = <<>>
    /\ entry_index = 1
    /\ download_queue = EmptyQueue
    /\ queue_index = 1
    /\ torrent_search_result_list = <<>>
    /\ torrent_search_result_list_for_missing_shows = <<>>
    /\ search_results = <<>>
    /\ position = 1
    /\ app_store = {}
    /\ plex_queries = {}
    /\ plex_answers = <<>>
    /\ nyaa_searches = <<>>
    /\ calls = <<>>
    /\ move_calls = <<>>
    /\ move_failed = {}
    /\ download_failed = {}
    /\ pc2 = "absent"
    /\ search_results2 = <<>>
    /\ position2 = 1
    /\ calls2 = <<>>
    /\ after_first = TRUE

\* ------------------------------------------- the top-level try / except
\* lines 210 and 250-253: every statement of the run is inside the try, and
\* `except Exception` logs and returns
ExceptionBoundary_AfterFetch(stage) == IF stage = "fetch" THEN "propagated" ELSE "caught"
ExceptionBoundary(stage) == "caught"

\* an exception raised at `stage` anywhere below start_application
Raise(stage) ==
    /\ raised' = stage
    /\ outcome' = ExceptionBoundary(stage)
    /\ pc' = "terminated"

\* start_application returns normally
Return ==
    /\ outcome' = "completed"
    /\ pc' = "terminated"
    /\ UNCHANGED raised

\* names whose move raised during the run that has just ended
MoveFailedNames ==
    {search_results[k].name : k \in {j \in DOMAIN calls : \E e \in DOMAIN calls[j] :
                                                        calls[j][e] = "move:raise"}}
\* the names of this run whose enqueue and direct download both failed
DownloadFailedNames ==
    {search_results[k].name : k \in {j \in DOMAIN calls : \E e \in DOMAIN calls[j] :
                                                        calls[j][e] = "download:false"}}

\* ---------------------------------------------------------------- fetch
\* lines 205-213: the scheduler invokes start_application (again);
\* fetch_anime_list, then `if anime_list:`
FetchAnimeList ==
    /\ pc = "idle"
    /\ UNCHANGED <<download_failed, second_vars>>
    /\ UNCHANGED <<entry_index, download_queue, plex_queries, plex_answers, app_store,
                   move_failed>>
    /\ UNCHANGED search_vars
    /\ UNCHANGED decide_vars
    /\ \/ /\ anime_list' = <<>>
          /\ Raise("fetch")
       \/ \E media_list_entries \in EntryLists :
            /\ anime_list' = media_list_entries
            /\ IF media_list_entries # <<>>
                 THEN /\ pc' = "find_plex_show"
                      /\ outcome' = "running"
                      /\ raised' = "none"
                 ELSE /\ outcome' = "completed"
                      /\ raised' = "none"
                      /\ pc' = "terminated"

\* ------------------------------------------------------- find_plex_show
IsReleased_Always(entry) == TRUE
\* line 65
IsReleased(entry) == entry.media_status # "NOT_YET_RELEASED"
IsNotCompleted_Always(entry) == TRUE
\* line 66
IsNotCompleted(entry) == entry.status # "COMPLETED"

\* line 75: shows_in_plex_matching_users_list += show
ExtendFound(found, show) == found \o show
ExtendMatched_Dropped(matched, entry) == matched
\* line 76: show_media_entry_mapped_to_plex.append(entry)
ExtendMatched(matched, entry) == Append(matched, entry)
AddMissingItem_Dropped(append_list, media_entry) == append_list
\* lines 51-53: __add_missing_item, the body of the callback of lines 69-72
AddMissingItem(append_list, media_entry) == Append(append_list, media_entry)

\* lines 64-76: one iteration of `for entry in media_entries`
FindPlexShowStep ==
    /\ pc = "find_plex_show"
    /\ UNCHANGED <<download_failed, second_vars>>
    /\ entry_index <= Len(anime_list)
    /\ LET entry == anime_list[entry_index] IN
       IF IsReleased(entry) /\ IsNotCompleted(entry)
         THEN /\ plex_queries' = plex_queries \cup {entry.id}
              /\ \/ /\ Raise("find_plex_show")
                    /\ UNCHANGED <<anime_list, entry_index, download_queue, plex_answers>>
                 \/ \E n \in 0..MaxItems, fired \in BOOLEAN :
                      LET show == Shows(entry, n) IN
                      /\ download_queue' =
                           [shows_missing_in_plex |->
                              IF fired
                                THEN AddMissingItem(download_queue.shows_missing_in_plex,
                                                    entry)
                                ELSE download_queue.shows_missing_in_plex,
                            shows_found_in_plex |->
                              IF show # <<>>
                                THEN ExtendFound(download_queue.shows_found_in_plex, show)
                                ELSE download_queue.shows_found_in_plex,
                            show_media_entry_in_plex |->
                              IF show # <<>>
                                THEN ExtendMatched(download_queue.show_media_entry_in_plex,
                                                   entry)
                                ELSE download_queue.show_media_entry_in_plex]
                      /\ plex_answers' = Append(plex_answers,
                                                [id |-> entry.id, n |-> n, fired |-> fired])
                      /\ entry_index' = entry_index + 1
                      /\ UNCHANGED <<anime_list, pc, outcome, raised>>
         ELSE /\ entry_index' = entry_index + 1
              /\ UNCHANGED <<anime_list, download_queue, plex_queries, plex_answers,
                             pc, outcome, raised>>
    /\ UNCHANGED <<app_store, move_failed>>
    /\ UNCHANGED search_vars
    /\ UNCHANGED decide_vars

\* lines 77-87 and 214-216: the queue is returned; `if download_queue.contains_items()`
FindPlexShowReturn ==
    /\ pc = "find_plex_show"
    /\ UNCHANGED <<download_failed, second_vars>>
    /\ entry_index > Len(anime_list)
    /\ IF contains_items(download_queue)
         THEN /\ pc' = "search_missing"
              /\ UNCHANGED <<outcome, raised>>
         ELSE Return
    /\ UNCHANGED <<app_store, move_failed>>
    /\ UNCHANGED <<find_vars, download_queue>>
    /\ UNCHANGED search_vars
    /\ UNCHANGED decide_vars

\* ------------------------------------------------- search_nyaa_for_shows
\* anime_list and the loop of find_plex_show are not read after line 214: the
\* model forgets them with the first step that follows
ForgetFindPlexShow ==
    /\ anime_list' = <<>>
    /\ entry_index' = 1
    /\ plex_queries' = {}
    /\ plex_answers' = <<>>

Min(a, b) == IF a < b THEN a ELSE b

\* the model's cap on the number of torrents one run handles
Fits(torrent_search_results) ==
    Len(torrent_search_result_list) + Len(torrent_search_result_list_for_missing_shows)
      + Len(torrent_search_results) <= MaxCandidates

NoShow == [show_of |-> 0, n |-> 0]

\* history: one nyaa search call and its arguments
Searched(kind, media, show) == [kind |-> kind, media |-> media.id, show |-> show]

\* line 126: zip(shows_found_in_plex, show_media_entry_in_plex) stops at the shorter
ZipLen(q) == Min(Len(q.shows_found_in_plex), Len(q.show_media_entry_in_plex))

\* lines 106-115: one iteration of `for media in download_queue.shows_missing_in_plex`
SearchMissingStep ==
    /\ pc = "search_missing"
    /\ UNCHANGED <<download_failed, second_vars>>
    /\ queue_index <= Len(download_queue.shows_missing_in_plex)
    /\ LET media == download_queue.shows_missing_in_plex[queue_index] IN
       \/ /\ nyaa_searches' = Append(nyaa_searches, Searched("missing", media, NoShow))
          /\ Raise("search_nyaa_for_shows")
          /\ UNCHANGED <<queue_index, torrent_search_result_list_for_missing_shows>>
       \/ \E torrent_search_results \in SearchResults :
               /\ Fits(torrent_search_results)
               /\ nyaa_searches' = Append(nyaa_searches,
                                          Searched("missing", media, NoShow))
               /\ torrent_search_result_list_for_missing_shows' =
                    IF Len(torrent_search_results) > 0
                      THEN torrent_search_result_list_for_missing_shows
                             \o torrent_search_results
                      ELSE torrent_search_result_list_for_missing_shows
               /\ queue_index' = queue_index + 1
               /\ UNCHANGED <<pc, outcome, raised>>
    /\ UNCHANGED <<app_store, move_failed, torrent_search_result_list>>
    /\ ForgetFindPlexShow
    /\ UNCHANGED download_queue
    /\ UNCHANGED decide_vars

\* lines 116-125: the first loop is over, the second starts
SearchMissingDone ==
    /\ pc = "search_missing"
    /\ UNCHANGED <<download_failed, second_vars>>
    /\ queue_index > Len(download_queue.shows_missing_in_plex)
    /\ pc' = "search_found"
    /\ queue_index' = 1
    /\ UNCHANGED <<outcome, raised, app_store, move_failed,
                   torrent_search_result_list,
                   torrent_search_result_list_for_missing_shows, nyaa_searches>>
    /\ ForgetFindPlexShow
    /\ UNCHANGED download_queue
    /\ UNCHANGED decide_vars

\* lines 126-140: one iteration of `for show, media in zip(...)`
SearchFoundStep ==
    /\ pc = "search_found"
    /\ UNCHANGED <<download_failed, second_vars>>
    /\ queue_index <= ZipLen(download_queue)
    /\ LET show == download_queue.shows_found_in_plex[queue_index]
           media == download_queue.show_media_entry_in_plex[queue_index] IN
       \/ /\ nyaa_searches' = Append(nyaa_searches, Searched("found", media, show))
          /\ Raise("search_nyaa_for_shows")
          /\ UNCHANGED <<queue_index, torrent_search_result_list>>
       \/ \E torrent_search_results \in SearchResults :
               /\ Fits(torrent_search_results)
               /\ nyaa_searches' = Append(nyaa_searches,
                                          Searched("found", media, show))
               /\ torrent_search_result_list' =
                    IF Len(torrent_search_results) > 0
                      THEN torrent_search_result_list \o torrent_search_results
                      ELSE torrent_search_result_list
               /\ queue_index' = queue_index + 1
               /\ UNCHANGED <<pc, outcome, raised>>
    /\ UNCHANGED <<app_store, move_failed,
                   torrent_search_result_list_for_missing_shows>>
    /\ ForgetFindPlexShow
    /\ UNCHANGED download_queue
    /\ UNCHANGED decide_vars

SearchReturnValue_MissingFirst(for_found, for_missing) == for_missing \o for_found
\* line 143: the list search_nyaa_for_shows returns
SearchReturnValue(for_found, for_missing) == for_found \o for_missing

\* lines 141-143 and 218-221, 242-249: the result is returned;
\* `if search_results is not None and len(search_results) > 0`
SearchReturn ==
    /\ pc = "search_found"
    /\ UNCHANGED <<download_failed, second_vars>>
    /\ queue_index > ZipLen(download_queue)
    /\ LET result == SearchReturnValue(torrent_search_result_list,
                                       torrent_search_result_list_for_missing_shows) IN
       /\ search_results' = result
       /\ calls' = [k \in 1..Len(result) |-> <<>>]
       /\ position' = 1
       /\ IF Len(result) > 0
            THEN /\ pc' = "decide"
                 /\ UNCHANGED <<outcome, raised>>
            ELSE Return
    /\ UNCHANGED <<app_store, move_failed, move_calls>>
    /\ ForgetFindPlexShow
    /\ UNCHANGED download_queue
    /\ UNCHANGED search_vars

\* ------------------------------------------------ the decision phase
\* download_queue and the lists of search_nyaa_for_shows are not read after
\* line 218: the model forgets them with the first step that follows
ForgetSearch ==
    /\ download_queue' = EmptyQueue
    /\ queue_index' = 1
    /\ torrent_search_result_list' = <<>>
    /\ torrent_search_result_list_for_missing_shows' = <<>>
    /\ nyaa_searches' = <<>>

\* AppStore.search(where('name') == name): the records kept under that name
Search(store, name) == {record \in store : record = name}
\* AppStore.save_or_update(model): an upsert keyed by the model's name
SaveOrUpdate(store, model) == store \cup {model.name}
\* NyaaModelHelper.create_dictionary_class(torrent_info)
CreateDictionaryClass(torrent_info) == [name |-> torrent_info.name]

HasNoAnimeInfo_Never(torrent_info) == FALSE
\* line 222: `if torrent_info.anime_info is None`
HasNoAnimeInfo(torrent_info) == torrent_info.anime_info = None
FindDownloadableTorrents_Nothing(store, torrent_info) == {}
\* lines 145-146: __find_downloadable_torrents
FindDownloadableTorrents(store, torrent_info) == Search(store, torrent_info.name)
NothingDownloaded_Always(downloaded_torrent) == TRUE
\* line 231: `if downloaded_torrent is None or len(downloaded_torrent) < 1`
NothingDownloaded(downloaded_torrent) == Cardinality(downloaded_torrent) < 1
\* line 198: torrent_info.is_queued = success
IsQueued(success) == success
SaveAfterQueue_Skipped(store, torrent_info) == store
\* lines 199-201: the record written after a successful add_torrent_magnet
SaveAfterQueue(store, torrent_info) == SaveOrUpdate(store, CreateDictionaryClass(torrent_info))
FallsBack_Always(queued) == TRUE
\* line 233: `if not queued` leads to __download_torrent_file
FallsBack(queued) == ~queued
DownloadSucceeded_Always(is_download_successful) == TRUE
\* line 154: `if is_download_successful`
DownloadSucceeded(is_download_successful) == is_download_successful
SaveAfterDownload_Skipped(store, torrent_info) == store
\* lines 155-156: the record written as soon as the direct download succeeded
SaveAfterDownload(store, torrent_info) ==
    SaveOrUpdate(store, CreateDictionaryClass(torrent_info))
\* lines 179-180: the record written after the file was moved
SaveAfterMove(store, torrent_info) == SaveOrUpdate(store, CreateDictionaryClass(torrent_info))
MoveArguments_ToSaveDir(torrent_info) ==
    [filename |-> <<torrent_info.name, ".torrent">>,
     directory_path |-> build_parent_save_path(torrent_info.anime_info),
     destination_path |-> build_parent_save_path(torrent_info.anime_info),
     keep_file |-> torrent_keep_file_after_queuing]
\* lines 170-177: the arguments of StorageUtil.copy_or_move_file
MoveArguments(torrent_info) ==
    [filename |-> <<torrent_info.name, ".torrent">>,
     directory_path |-> build_parent_save_path(torrent_info.anime_info),
     destination_path |-> torrent_monitor_directory,
     keep_file |-> torrent_keep_file_after_queuing]

\* history: whether the store held a record of the name when it was asked
StoreAnswer(torrent_info) ==
    IF torrent_info.name \in app_store THEN "find:hit" ELSE "find:none"

\* history: the calls made for the torrent at `position`
Logged(events) == [calls EXCEPT ![position] = @ \o events]

\* `continue`, or the end of the loop body: on to the next torrent
NextTorrent ==
    /\ position' = position + 1
    /\ pc' = "decide"
    /\ UNCHANGED <<outcome, raised>>

\* lines 221-231, 235-241: the loop takes a torrent, skips it when it has no
\* anime info, else looks its name up in the store and skips it when found
DecideCandidate ==
    /\ pc = "decide"
    /\ UNCHANGED <<download_failed, second_vars>>
    /\ position <= Len(search_results)
    /\ LET torrent_info == search_results[position] IN
       IF HasNoAnimeInfo(torrent_info)
         THEN /\ calls' = Logged(<<"skip:unlinked">>)
              /\ NextTorrent
         ELSE \/ /\ calls' = Logged(<<"find:raise">>)
                 /\ Raise("decide")
                 /\ UNCHANGED position
              \/ LET downloaded_torrent == FindDownloadableTorrents(app_store, torrent_info)
                 IN /\ calls' = Logged(<<StoreAnswer(torrent_info)>>)
                    /\ IF NothingDownloaded(downloaded_torrent)
                         THEN /\ pc' = "queue"
                              /\ UNCHANGED <<position, outcome, raised>>
                         ELSE NextTorrent
    /\ UNCHANGED <<app_store, move_failed, search_results, move_calls>>
    /\ ForgetSearch
    /\ UNCHANGED find_vars

\* lines 232-234: `queued = ...; if not queued: self.__download_torrent_file(...)`
AfterQueue(queued) ==
    IF FallsBack(queued)
      THEN /\ pc' = "download"
           /\ UNCHANGED <<position, outcome, raised>>
      ELSE NextTorrent

\* lines 188-203 and 232-233: __queue_downloaded_torrent_file, then `if not queued`
QueueDownloadedTorrentFile ==
    /\ pc = "queue"
    /\ UNCHANGED <<download_failed, second_vars>>
    /\ LET torrent_info == search_results[position] IN
       \/ /\ calls' = Logged(<<"magnet:raise">>)
          /\ Raise("decide")
          /\ UNCHANGED <<position, search_results, app_store>>
       \/ \E success \in BOOLEAN :
            LET queued_info == [torrent_info EXCEPT !.is_queued = IsQueued(success)] IN
            /\ search_results' = [search_results EXCEPT ![position] = queued_info]
            /\ \/ /\ success
                  /\ app_store' = SaveAfterQueue(app_store, queued_info)
                  /\ calls' = Logged(<<"magnet:true", "upsert:ok">>)
                  /\ AfterQueue(success)
               \/ /\ success
                  /\ calls' = Logged(<<"magnet:true", "upsert:raise">>)
                  /\ Raise("decide")
                  /\ UNCHANGED <<position, app_store>>
               \/ /\ ~success
                  /\ calls' = Logged(<<"magnet:false">>)
                  /\ AfterQueue(success)
                  /\ UNCHANGED app_store
    /\ UNCHANGED <<move_failed, move_calls>>
    /\ ForgetSearch
    /\ UNCHANGED find_vars

\* lines 148-166: __download_torrent_file up to the call of the move
DownloadTorrentFile ==
    /\ pc = "download"
    /\ UNCHANGED <<download_failed, second_vars>>
    /\ LET torrent_info == search_results[position] IN
       \/ /\ calls' = Logged(<<"download:raise">>)
          /\ Raise("decide")
          /\ UNCHANGED <<position, app_store>>
       \/ \E is_download_successful \in BOOLEAN :
            LET returned == IF is_download_successful THEN "download:true"
                                                      ELSE "download:false" IN
            IF DownloadSucceeded(is_download_successful)
              THEN \/ /\ app_store' = SaveAfterDownload(app_store, torrent_info)
                      /\ calls' = Logged(<<returned, "upsert:ok">>)
                      /\ pc' = "move"
                      /\ UNCHANGED <<position, outcome, raised>>
                   \/ /\ calls' = Logged(<<returned, "upsert:raise">>)
                      /\ Raise("decide")
                      /\ UNCHANGED <<position, app_store>>
              ELSE /\ calls' = Logged(<<returned>>)
                   /\ NextTorrent
                   /\ UNCHANGED app_store
    /\ UNCHANGED <<move_failed, search_results, move_calls>>
    /\ ForgetSearch
    /\ UNCHANGED find_vars

\* lines 168-186: __move_torrent_to_monitored_directory; its own try/except
\* absorbs a failure of the move and of the save that follows it
MoveTorrentToMonitoredDirectory ==
    /\ pc = "move"
    /\ UNCHANGED <<download_failed, second_vars>>
    /\ LET torrent_info == search_results[position] IN
       /\ move_calls' = Append(move_calls, MoveArguments(torrent_info))
       /\ \/ /\ calls' = Logged(<<"move:ok", "upsert:ok">>)
             /\ app_store' = SaveAfterMove(app_store, torrent_info)
          \/ /\ calls' = Logged(<<"move:ok", "upsert:raise">>)
             /\ UNCHANGED app_store
          \/ /\ calls' = Logged(<<"move:raise">>)
             /\ UNCHANGED app_store
       /\ NextTorrent
    /\ UNCHANGED <<move_failed, search_results>>
    /\ ForgetSearch
    /\ UNCHANGED find_vars

\* line 249: the loop is over and start_application returns
DecideDone ==
    /\ pc = "decide"
    /\ UNCHANGED <<download_failed, second_vars>>
    /\ position > Len(search_results)
    /\ Return
    /\ UNCHANGED <<app_store, move_failed>>
    /\ ForgetSearch
    /\ UNCHANGED find_vars
    /\ UNCHANGED decide_vars

\* start_application has returned and the process ends: only the store stays
ProcessExit ==
    /\ pc = "terminated"
    /\ UNCHANGED <<move_failed, download_failed, second_vars>>
    /\ pc' = "idle"
    /\ outcome' = "none"
    /\ raised' = "none"
    /\ anime_list' = <<>>
    /\ entry_index' = 1
    /\ download_queue' = EmptyQueue
    /\ queue_index' = 1
    /\ torrent_search_result_list' = <<>>
    /\ torrent_search_result_list_for_missing_shows' = <<>>
    /\ search_results' = <<>>
    /\ position' = 1
    /\ plex_queries' = {}
    /\ plex_answers' = <<>>
    /\ nyaa_searches' = <<>>
    /\ calls' = <<>>
    /\ move_calls' = <<>>
    /\ UNCHANGED app_store

\* the same exit, remembering the names whose move raised in the run
ProcessExitMoved ==
    /\ pc = "terminated"
    /\ UNCHANGED <<download_failed, second_vars>>
    /\ pc' = "idle"
    /\ outcome' = "none"
    /\ raised' = "none"
    /\ move_failed' = move_failed \cup MoveFailedNames
    /\ anime_list' = <<>>
    /\ entry_index' = 1
    /\ download_queue' = EmptyQueue
    /\ queue_index' = 1
    /\ torrent_search_result_list' = <<>>
    /\ torrent_search_result_list_for_missing_shows' = <<>>
    /\ search_results' = <<>>
    /\ position' = 1
    /\ plex_queries' = {}
    /\ plex_answers' = <<>>
    /\ nyaa_searches' = <<>>
    /\ calls' = <<>>
    /\ move_calls' = <<>>
    /\ UNCHANGED app_store

\* the same exit, remembering instead which names were left without a record
\* after add_torrent_magnet returned false and the direct download failed
ProcessExitRetry ==
    /\ pc = "terminated"
    /\ UNCHANGED <<move_failed, second_vars>>
    /\ pc' = "idle"
    /\ outcome' = "none"
    /\ raised' = "none"
    /\ download_failed' = (download_failed \cup DownloadFailedNames) \ app_store
    /\ anime_list' = <<>>
    /\ entry_index' = 1
    /\ download_queue' = EmptyQueue
    /\ queue_index' = 1
    /\ torrent_search_result_list' = <<>>
    /\ torrent_search_result_list_for_missing_shows' = <<>>
    /\ search_results' = <<>>
    /\ position' = 1
    /\ plex_queries' = {}
    /\ plex_answers' = <<>>
    /\ nyaa_searches' = <<>>
    /\ calls' = <<>>
    /\ move_calls' = <<>>
    /\ UNCHANGED app_store

\* ------------------------------------- a second, concurrent invocation
\* Nothing in lines 220-241 locks the store between the lookup of line 230 and
\* the save_or_update of lines 201 and 156: a second process running the same
\* loop against the same store takes its steps between those of the first.
first_vars == <<pc, outcome, raised, anime_list, entry_index, download_queue,
                queue_index, torrent_search_result_list,
                torrent_search_result_list_for_missing_shows, search_results,
                position, plex_queries, plex_answers, nyaa_searches, calls,
                move_calls>>

\* the search results an invocation can hold when it enters its loop
CandidateLists ==
    UNION {[1..n -> {TorrentInfo(nm, inf) : nm \in Names, inf \in {None, AnimeInfo}}] :
             n \in 1..MaxCandidates}

\* the same torrents in any order
Reordered(list) ==
    {[k \in DOMAIN list |-> list[f[k]]] :
       f \in {g \in [DOMAIN list -> DOMAIN list] :
               \A a, b \in DOMAIN list : a # b => g[a] # g[b]}}

\* both invocations have searched the same feed and stand at line 220, the
\* store empty
InitConcurrent ==
    /\ pc = "decide"
    /\ outcome = "running"
    /\ raised = "none"
    /\ anime_list = <<>>
    /\ entry_index = 1
    /\ download_queue = EmptyQueue
    /\ queue_index = 1
    /\ torrent_search_result_list = <<>>
    /\ torrent_search_result_list_for_missing_shows = <<>>
    /\ search_results \in CandidateLists
    /\ position = 1
    /\ app_store = {}
    /\ plex_queries = {}
    /\ plex_answers = <<>>
    /\ nyaa_searches = <<>>
    /\ calls = [k \in 1..Len(search_results) |-> <<>>]
    /\ move_calls = <<>>
    /\ move_failed = {}
    /\ download_failed = {}
    /\ pc2 = "decide"
    /\ search_results2 \in Reordered(search_results)
    /\ position2 = 1
    /\ calls2 = [k \in 1..Len(search_results2) |-> <<>>]
    /\ after_first = TRUE

OtherLogged(events) == [calls2 EXCEPT ![position2] = @ \o events]

\* history: a step of the second invocation, taken while the first one is
\* still running or after it has ended
OtherStep == after_first' = (after_first /\ pc = "terminated")

OtherNextTorrent ==
    /\ position2' = position2 + 1
    /\ pc2' = "decide"

\* lines 250-253 in the second invocation
OtherRaise ==
    /\ pc2' = "terminated"
    /\ UNCHANGED position2

\* lines 221-231, 235-241 in the second invocation
OtherDecideCandidate ==
    /\ pc2 = "decide"
    /\ OtherStep
    /\ position2 <= Len(search_results2)
    /\ LET torrent_info == search_results2[position2] IN
       IF HasNoAnimeInfo(torrent_info)
         THEN /\ calls2' = OtherLogged(<<"skip:unlinked">>)
              /\ OtherNextTorrent
         ELSE \/ /\ calls2' = OtherLogged(<<"find:raise">>)
                 /\ OtherRaise
              \/ LET downloaded_torrent == FindDownloadableTorrents(app_store, torrent_info)
                 IN /\ calls2' = OtherLogged(<<StoreAnswer(torrent_info)>>)
                    /\ IF NothingDownloaded(downloaded_torrent)
                         THEN /\ pc2' = "queue"
                              /\ UNCHANGED position2
                         ELSE OtherNextTorrent
    /\ UNCHANGED <<app_store, search_results2, first_vars, move_failed, download_failed>>

OtherAfterQueue(queued) ==
    IF FallsBack(queued)
      THEN /\ pc2' = "download"
           /\ UNCHANGED position2
      ELSE OtherNextTorrent

\* lines 188-203 and 232-233 in the second invocation
OtherQueueDownloadedTorrentFile ==
    /\ pc2 = "queue"
    /\ OtherStep
    /\ LET torrent_info == search_results2[position2] IN
       \/ /\ calls2' = OtherLogged(<<"magnet:raise">>)
          /\ OtherRaise
          /\ UNCHANGED <<search_results2, app_store>>
       \/ \E success \in BOOLEAN :
            LET queued_info == [torrent_info EXCEPT !.is_queued = IsQueued(success)] IN
            /\ search_results2' = [search_results2 EXCEPT ![position2] = queued_info]
            /\ \/ /\ success
                  /\ app_store' = SaveAfterQueue(app_store, queued_info)
                  /\ calls2' = OtherLogged(<<"magnet:true", "upsert:ok">>)
                  /\ OtherAfterQueue(success)
               \/ /\ success
                  /\ calls2' = OtherLogged(<<"magnet:true", "upsert:raise">>)
                  /\ OtherRaise
                  /\ UNCHANGED app_store
               \/ /\ ~success
                  /\ calls2' = OtherLogged(<<"magnet:false">>)
                  /\ OtherAfterQueue(success)
                  /\ UNCHANGED app_store
    /\ UNCHANGED <<first_vars, move_failed, download_failed>>

\* lines 148-166 in the second invocation
OtherDownloadTorrentFile ==
    /\ pc2 = "download"
    /\ OtherStep
    /\ LET torrent_info == search_results2[position2] IN
       \/ /\ calls2' = OtherLogged(<<"download:raise">>)
          /\ OtherRaise
          /\ UNCHANGED app_store
       \/ \E is_download_successful \in BOOLEAN :
            LET returned == IF is_download_successful THEN "download:true"
                                                      ELSE "download:false" IN
            IF DownloadSucceeded(is_download_successful)
              THEN \/ /\ app_store' = SaveAfterDownload(app_store, torrent_info)
                      /\ calls2' = OtherLogged(<<returned, "upsert:ok">>)
                      /\ pc2' = "move"
                      /\ UNCHANGED position2
                   \/ /\ calls2' = OtherLogged(<<returned, "upsert:raise">>)
                      /\ OtherRaise
                      /\ UNCHANGED app_store
              ELSE /\ calls2' = OtherLogged(<<returned>>)
                   /\ OtherNextTorrent
                   /\ UNCHANGED app_store
    /\ UNCHANGED <<search_results2, first_vars, move_failed, download_failed>>

\* lines 168-186 in the second invocation (move_calls keeps the first one's calls)
OtherMoveTorrentToMonitoredDirectory ==
    /\ pc2 = "move"
    /\ OtherStep
    /\ LET torrent_info == search_results2[position2] IN
       /\ \/ /\ calls2' = OtherLogged(<<"move:ok", "upsert:ok">>)
             /\ app_store' = SaveAfterMove(app_store, torrent_info)
          \/ /\ calls2' = OtherLogged(<<"move:ok", "upsert:raise">>)
             /\ UNCHANGED app_store
          \/ /\ calls2' = OtherLogged(<<"move:raise">>)
             /\ UNCHANGED app_store
       /\ OtherNextTorrent
    /\ UNCHANGED <<search_results2, first_vars, move_failed, download_failed>>

\* the loop of the second invocation is exhausted
OtherDecideDone ==
    /\ pc2 = "decide"
    /\ OtherStep
    /\ position2 > Len(search_results2)
    /\ pc2' = "terminated"
    /\ UNCHANGED <<app_store, search_results2, position2, calls2, first_vars,
                   move_failed, download_failed>>

\* ================================================================ claims
Torrents == DOMAIN calls
Has(k, event) == \E e \in DOMAIN calls[k] : calls[k][e] = event
\* the decision step of torrent k ended without an exception
StepEnded(k) == position > k
Entries == DOMAIN anime_list
InQueue(id) ==
    \/ \E m \in DOMAIN download_queue.shows_missing_in_plex :
         download_queue.shows_missing_in_plex[m].id = id
    \/ \E m \in DOMAIN download_queue.show_media_entry_in_plex :
         download_queue.show_media_entry_in_plex[m].id = id
    \/ \E m \in DOMAIN download_queue.shows_found_in_plex :
         download_queue.shows_found_in_plex[m].show_of = id
MovedToMonitor(k) ==
    \E m \in DOMAIN move_calls :
      /\ move_calls[m].filename = <<search_results[k].name, ".torrent">>
      /\ move_calls[m].destination_path = torrent_monitor_directory

\* C1: a linked torrent whose name already has a record in the store when the
\* loop looks it up causes no add_torrent_magnet, no direct download, no move
\* and no write to the store: the lookup is the only call made for it.
C1_DedupGuard ==
    \A k \in Torrents : Has(k, "find:hit") => calls[k] = <<"find:hit">>
C1_Witness ==
    \E k \in Torrents :
      /\ calls[k] = <<"find:hit">>
      /\ StepEnded(k)
      /\ search_results[k].name \in app_store

\* C2: when a collaborator call raises at one torrent, every torrent after it
\* in the result list is still taken through the decision phase in that run.
C2_FailSoftPerCandidate ==
    (pc = "terminated" /\ raised = "decide") => \A k \in Torrents : calls[k] # <<>>

\* C3: when the direct download succeeded and the move raises, the error is
\* absorbed, the name has a record, the loop goes on to the next torrent, and
\* a later run makes no attempt for a torrent of that name.
C3_MoveFailureKeepsRecord ==
    /\ \A k \in Torrents :
         Has(k, "move:raise") =>
           /\ search_results[k].name \in app_store
           /\ StepEnded(k)
    /\ move_failed \subseteq app_store
    /\ \A k \in Torrents :
         search_results[k].name \in move_failed =>
           calls[k] \in {<<>>, <<"skip:unlinked">>, <<"find:hit">>, <<"find:raise">>}
C3_Witness ==
    \E k \in Torrents :
      /\ search_results[k].name \in move_failed
      /\ calls[k] = <<"find:hit">>

\* C4: the queue find_plex_show returns has as many shows found as entries
\* matched, whatever plex returns.
C4_FoundParallelToMatched ==
    pc # "find_plex_show" =>
      Len(download_queue.shows_found_in_plex)
        = Len(download_queue.show_media_entry_in_plex)

\* C5: whatever stage raises, start_application catches the exception, the
\* run is terminated and nothing propagates to the caller.
C5_TopLevelBoundary ==
    /\ outcome # "propagated"
    /\ raised # "none" => (pc = "terminated" /\ outcome = "caught")
C5_Witness ==
    /\ raised = "fetch"
    /\ outcome = "caught"
    /\ pc = "terminated"

\* C6: an entry whose media status is NOT_YET_RELEASED is never given to plex
\* and is in none of the three lists of the queue, whatever its own status.
C6_NotYetReleasedSkipped ==
    \A p \in Entries :
      anime_list[p].media_status = "NOT_YET_RELEASED" =>
        /\ anime_list[p].id \notin plex_queries
        /\ ~InQueue(anime_list[p].id)
C6_Witness ==
    /\ pc = "search_missing"
    /\ \E p \in Entries :
         /\ anime_list[p].media_status = "NOT_YET_RELEASED"
         /\ anime_list[p].status = "CURRENT"

\* C7: an entry whose status is COMPLETED is never given to plex and is in
\* none of the lists; a list of COMPLETED entries only gives an empty queue
\* and the run stops before any nyaa search.
C7_CompletedExcluded ==
    /\ \A p \in Entries :
         anime_list[p].status = "COMPLETED" =>
           /\ anime_list[p].id \notin plex_queries
           /\ ~InQueue(anime_list[p].id)
    /\ (anime_list # <<>> /\ \A p \in Entries : anime_list[p].status = "COMPLETED") =>
         /\ pc \in {"find_plex_show", "terminated"}
         /\ download_queue = EmptyQueue
         /\ nyaa_searches = <<>>
         /\ search_results = <<>>
C7_Witness ==
    /\ pc = "terminated"
    /\ outcome = "completed"
    /\ Len(anime_list) > 1
    /\ \A p \in Entries :
         /\ anime_list[p].status = "COMPLETED"
         /\ anime_list[p].media_status = "RELEASING"

\* C8: a torrent without anime_info causes no store lookup, no
\* add_torrent_magnet, no direct download, no move and no write, and the loop
\* goes on to the next torrent.
C8_UnlinkedInert ==
    \A k \in Torrents :
      search_results[k].anime_info = None =>
        /\ calls[k] \in {<<>>, <<"skip:unlinked">>}
        /\ ~search_results[k].is_queued
        /\ calls[k] # <<>> => StepEnded(k)
C8_Witness ==
    \E k \in Torrents :
      /\ search_results[k].anime_info = None
      /\ calls[k] = <<"skip:unlinked">>
      /\ k + 1 \in Torrents
      /\ calls[k + 1] # <<>>

\* C9: for a linked torrent without a record, when add_torrent_magnet returns
\* true and the decision step ends, is_queued is true and the store holds a
\* record of the torrent's name.
C9_SuccessfulEnqueue ==
    \A k \in Torrents :
      (Has(k, "magnet:true") /\ StepEnded(k)) =>
        /\ search_results[k].is_queued
        /\ search_results[k].name \in app_store
C9_Witness ==
    \E k \in Torrents :
      /\ calls[k] = <<"find:none", "magnet:true", "upsert:ok">>
      /\ StepEnded(k)

\* C10 as stated: for a linked torrent without a record, when
\* add_torrent_magnet returns false the direct download is invoked, the move is
\* then called with torrent_monitor_directory as destination, and the name has
\* a record when the decision step ends.
C10_FallbackAlwaysRecords ==
    \A k \in Torrents :
      (Has(k, "magnet:false") /\ StepEnded(k)) =>
        /\ Has(k, "download:true") \/ Has(k, "download:false")
        /\ MovedToMonitor(k)
        /\ search_results[k].name \in app_store

\* C10 as amended: when add_torrent_magnet returns false the direct download is
\* invoked in the same run; when that download succeeds, the move is called
\* with torrent_monitor_directory as destination and the name has a record
\* when the decision step ends.
C10_FallbackOnEnqueueFailure ==
    \A k \in Torrents :
      (Has(k, "magnet:false") /\ StepEnded(k)) =>
        /\ Has(k, "download:true") \/ Has(k, "download:false")
        /\ Has(k, "download:true") =>
             /\ MovedToMonitor(k)
             /\ search_results[k].name \in app_store
C10_Witness ==
    \E k \in Torrents :
      /\ calls[k] = <<"find:none", "magnet:false", "download:true", "upsert:ok",
                      "move:ok", "upsert:ok">>
      /\ StepEnded(k)
      /\ MovedToMonitor(k)

\* C11: plex is asked only when the fetched list is non-empty, nyaa is
\* searched only when one of the three lists of the queue is non-empty, and
\* the store, transmission, the direct download and the move are used only
\* when the search gave a torrent; a stage starts when the one before is over.
SearchPcs == {"search_missing", "search_found"}
DecidePcs == {"decide", "queue", "download", "move"}
C11_StageGating ==
    /\ plex_queries # {} => anime_list # <<>>
    /\ (pc \in SearchPcs \/ nyaa_searches # <<>>) =>
         /\ download_queue # EmptyQueue
         /\ entry_index > Len(anime_list)
    /\ (pc \in DecidePcs \/ \E k \in Torrents : calls[k] # <<>>) =>
         /\ search_results # <<>>
         /\ queue_index > ZipLen(download_queue)
         /\ entry_index > Len(anime_list)
    /\ pc = "find_plex_show" =>
         (nyaa_searches = <<>> /\ search_results = <<>> /\ move_calls = <<>>)
    /\ pc \in SearchPcs => (search_results = <<>> /\ move_calls = <<>>)
C11_Witness ==
    /\ pc = "decide"
    /\ position = 1
    /\ calls[1] = <<>>
    /\ nyaa_searches # <<>>
    /\ download_queue.shows_missing_in_plex # <<>>
    /\ download_queue.show_media_entry_in_plex # <<>>

\* C12 as stated: in one run, once a linked torrent named X has been handled,
\* no later torrent named X of that run leads to an add_torrent_magnet or to a
\* direct download.
IsAttempt(event) ==
    event \in {"magnet:true", "magnet:false", "magnet:raise",
               "download:true", "download:false", "download:raise"}
Attempted(k) == \E e \in DOMAIN calls[k] : IsAttempt(calls[k][e])
SameName(j, k) ==
    /\ j < k
    /\ search_results[j].name = search_results[k].name
    /\ search_results[j].anime_info # None
    /\ search_results[k].anime_info # None
C12_AtMostOnceHandled ==
    \A j \in Torrents, k \in Torrents :
      (SameName(j, k) /\ StepEnded(j)) => ~Attempted(k)

\* C12 as amended: in one run, once a linked torrent named X has been recorded
\* in the store (after a successful add_torrent_magnet or a successful direct
\* download), no later torrent named X of that run leads to an
\* add_torrent_magnet or to a direct download.
C12_AtMostOnceRecorded ==
    \A j \in Torrents, k \in Torrents :
      (SameName(j, k) /\ Has(j, "upsert:ok")) =>
        /\ ~Attempted(k)
        /\ calls[k] \in {<<>>, <<"find:hit">>, <<"find:raise">>}
C12_Witness ==
    \E j \in Torrents, k \in Torrents :
      /\ SameName(j, k)
      /\ Has(j, "upsert:ok")
      /\ calls[k] = <<"find:hit">>

\* C14: every search_for_shows call gets a show together with the entry whose
\* plex lookup returned that show, and every show of shows_found_in_plex is
\* searched exactly once, also when plex returns several shows for an entry.
SearchOver == pc = "search_found" /\ queue_index > ZipLen(download_queue)
C14_FoundPairedWithEntry ==
    /\ \A s \in DOMAIN nyaa_searches :
         nyaa_searches[s].kind = "found" =>
           nyaa_searches[s].show.show_of = nyaa_searches[s].media
    /\ SearchOver =>
         \A m \in DOMAIN download_queue.shows_found_in_plex :
           Cardinality({s \in DOMAIN nyaa_searches :
                          /\ nyaa_searches[s].kind = "found"
                          /\ nyaa_searches[s].show
                               = download_queue.shows_found_in_plex[m]}) = 1

\* C15 as stated: after a successful direct download the move is invoked
\* before the record is written: no write of the name precedes the move.
IsMove(event) == event \in {"move:ok", "move:raise"}
C15_MoveBeforeUpsert ==
    \A k \in Torrents :
      Has(k, "download:true") =>
        \A e \in DOMAIN calls[k] :
          calls[k][e] = "upsert:ok" =>
            \E e2 \in 1..(e - 1) : IsMove(calls[k][e2])

\* C15 as amended: after a successful direct download the record is written
\* first and the move is invoked after it: when the move is tried the name
\* already has its record.
C15_UpsertBeforeMove ==
    /\ pc = "move" =>
         /\ search_results[position].name \in app_store
         /\ \A e \in DOMAIN calls[position] : ~IsMove(calls[position][e])
    /\ \A k \in Torrents :
         \A e \in DOMAIN calls[k] :
           IsMove(calls[k][e]) =>
             /\ e > 2
             /\ calls[k][e - 1] = "upsert:ok"
             /\ calls[k][e - 2] = "download:true"
             /\ search_results[k].name \in app_store
C15_Witness ==
    /\ pc = "move"
    /\ calls[position] = <<"find:none", "magnet:false", "download:true", "upsert:ok">>
    /\ search_results[position].name \in app_store
    /\ move_calls = <<>>

\* C19: a direct download is invoked only right after add_torrent_magnet
\* returned false for that torrent, a move only after that download succeeded;
\* after a true add_torrent_magnet neither is invoked, and add_torrent_magnet
\* is called at most once for a torrent.
IsMagnet(event) == event \in {"magnet:true", "magnet:false", "magnet:raise"}
IsDownload(event) == event \in {"download:true", "download:false", "download:raise"}
C19_FallbackOnlyOnFailure ==
    \A k \in Torrents :
      /\ \A e \in DOMAIN calls[k] :
           /\ IsDownload(calls[k][e]) => (e > 1 /\ calls[k][e - 1] = "magnet:false")
           /\ IsMove(calls[k][e]) =>
                \E e2 \in 1..(e - 1) : calls[k][e2] = "download:true"
      /\ Has(k, "magnet:true") =>
           \A e \in DOMAIN calls[k] : ~IsDownload(calls[k][e]) /\ ~IsMove(calls[k][e])
      /\ Cardinality({e \in DOMAIN calls[k] : IsMagnet(calls[k][e])}) <= 1
      /\ Cardinality({e \in DOMAIN calls[k] : IsDownload(calls[k][e])}) <= 1
C19_Witness ==
    \E j \in Torrents, k \in Torrents :
      /\ calls[j] = <<"find:none", "magnet:true", "upsert:ok">>
      /\ Has(k, "magnet:false")
      /\ Has(k, "download:true")
      /\ Has(k, "move:ok")

\* search_nyaa_for_shows has returned and its lists are still known
SearchReturned ==
    /\ pc \in {"decide", "terminated"}
    /\ raised = "none"
    /\ nyaa_searches # <<>>
\* every element of the queue was searched, the missing entries first
SearchedInQueueOrder ==
    LET missing == download_queue.shows_missing_in_plex
        pairs == ZipLen(download_queue)
    IN /\ Len(nyaa_searches) = Len(missing) + pairs
       /\ \A s \in 1..Len(missing) :
            /\ nyaa_searches[s].kind = "missing"
            /\ nyaa_searches[s].media = missing[s].id
       /\ \A s \in 1..pairs :
            /\ nyaa_searches[Len(missing) + s].kind = "found"
            /\ nyaa_searches[Len(missing) + s].show
                 = download_queue.shows_found_in_plex[s]
            /\ nyaa_searches[Len(missing) + s].media
                 = download_queue.show_media_entry_in_plex[s].id
\* `longer` is `list` with some results, or none, added at its end
Extends(longer, list) ==
    /\ Len(longer) >= Len(list)
    /\ SubSeq(longer, 1, Len(list)) = list
\* a search that has just been made put its results, if any, at the end of the
\* list of its kind, left the other list alone, and the loop went on
C16_SearchAppends ==
    (pc \in SearchPcs /\ Len(nyaa_searches') = Len(nyaa_searches) + 1
       /\ raised' = "none") =>
      /\ queue_index' = queue_index + 1
      /\ pc' = pc
      /\ IF pc = "search_missing"
           THEN /\ Extends(torrent_search_result_list_for_missing_shows',
                           torrent_search_result_list_for_missing_shows)
                /\ UNCHANGED torrent_search_result_list
           ELSE /\ Extends(torrent_search_result_list', torrent_search_result_list)
                /\ UNCHANGED torrent_search_result_list_for_missing_shows
\* C16 as stated: the list search_nyaa_for_shows returns is the results of
\* the searches for missing entries, in the order of shows_missing_in_plex,
\* followed by the results of the searches for found shows, in the order of
\* the pairs; an empty result adds nothing and does not stop the search.
C16_MissingThenFound ==
    /\ [](SearchReturned =>
           /\ search_results = torrent_search_result_list_for_missing_shows
                                  \o torrent_search_result_list
           /\ SearchedInQueueOrder)
    /\ [][C16_SearchAppends]_vars

\* C16 as amended: the list search_nyaa_for_shows returns is the results of
\* the searches for found shows, in the order of the pairs, followed by the
\* results of the searches for missing entries, in the order of
\* shows_missing_in_plex; an empty result adds nothing and does not stop the
\* search of the remaining entries.
C16_FoundThenMissing ==
    /\ [](SearchReturned =>
           /\ search_results = torrent_search_result_list
                                  \o torrent_search_result_list_for_missing_shows
           /\ SearchedInQueueOrder)
    /\ [][C16_SearchAppends]_vars
\* both kinds of search returned something, and one search returned nothing
C16_Witness ==
    /\ SearchReturned
    /\ pc = "decide"
    /\ torrent_search_result_list # <<>>
    /\ torrent_search_result_list_for_missing_shows # <<>>
    /\ torrent_search_result_list # torrent_search_result_list_for_missing_shows
    /\ Len(nyaa_searches) > Len(torrent_search_result_list)
                              + Len(torrent_search_result_list_for_missing_shows)

\* C17: shows_missing_in_plex holds one element per invocation of the
\* callback, each the entry that was being looked up when the callback was
\* invoked, in the order of the invocations, and nothing else.
RECURSIVE FiredFor(_)
FiredFor(n) ==
    IF n = 0
      THEN <<>>
      ELSE FiredFor(n - 1)
             \o (IF plex_answers[n].fired THEN <<plex_answers[n].id>> ELSE <<>>)
IdsOf(entries) == [m \in DOMAIN entries |-> entries[m].id]
C17_MissingCollected ==
    anime_list # <<>> =>
      IdsOf(download_queue.shows_missing_in_plex) = FiredFor(Len(plex_answers))
C17_Witness ==
    /\ pc = "search_missing"
    /\ Len(plex_answers) > 1
    /\ \E a \in DOMAIN plex_answers : ~plex_answers[a].fired
    /\ \E a \in DOMAIN plex_answers : plex_answers[a].fired /\ plex_answers[a].n > 0
    /\ download_queue.shows_missing_in_plex # <<>>

\* C20: when plex invokes the callback exactly when it returns no show, every
\* entry that is released and not COMPLETED and whose lookup was answered is
\* once in show_media_entry_in_plex or once in shows_missing_in_plex, never in
\* both, and no other entry is in either.
PlexWellBehaved ==
    \A a \in DOMAIN plex_answers : plex_answers[a].fired <=> plex_answers[a].n = 0
Occurrences(entries, id) == Cardinality({m \in DOMAIN entries : entries[m].id = id})
C20_Partition ==
    (anime_list # <<>> /\ PlexWellBehaved) =>
      \A p \in Entries :
        LET in_matched == Occurrences(download_queue.show_media_entry_in_plex,
                                      anime_list[p].id)
            in_missing == Occurrences(download_queue.shows_missing_in_plex,
                                      anime_list[p].id)
        IN IF /\ p < entry_index
              /\ anime_list[p].media_status # "NOT_YET_RELEASED"
              /\ anime_list[p].status # "COMPLETED"
             THEN in_matched + in_missing = 1
             ELSE in_matched + in_missing = 0
C20_Witness ==
    /\ pc = "search_missing"
    /\ PlexWellBehaved
    /\ Len(plex_answers) > 1
    /\ download_queue.shows_missing_in_plex # <<>>
    /\ Len(download_queue.shows_found_in_plex) > 1

\* ---------------------------------------------------------------- C18
\* the first linked candidate of a name, in search order
FirstLinked(k) ==
    /\ ~HasNoAnimeInfo(search_results[k])
    /\ \A j \in Torrents : ~SameName(j, k)
C18_FailureLeavesNoTrace ==
    \A k \in Torrents :
      Has(k, "download:false") =>
        /\ calls[k] = <<"find:none", "magnet:false", "download:false">>
        /\ StepEnded(k)
        /\ ~HasNoAnimeInfo(search_results[k])
        /\ ~search_results[k].is_queued
        /\ search_results[k].name \in app_store =>
             \E j \in Torrents :
               /\ j # k
               /\ search_results[j].name = search_results[k].name
               /\ Has(j, "upsert:ok")
C18_LaterRunAttempts ==
    \A k \in Torrents :
      (search_results[k].name \in download_failed /\ FirstLinked(k)
         /\ calls[k] # <<>>) =>
        /\ calls[k][1] \in {"find:none", "find:raise"}
        /\ (calls[k][1] = "find:none" /\ ~(pc = "queue" /\ position = k)) =>
             (Len(calls[k]) > 1 /\ IsMagnet(calls[k][2]))
C18_FailingStep ==
    (pc = "download" /\ calls'[position][Len(calls[position]) + 1] = "download:false")
      => /\ app_store' = app_store
         /\ move_calls' = move_calls
         /\ position' = position + 1
         /\ pc' = "decide"
\* C18: when add_torrent_magnet returns false and the direct download fails too,
\* the step leaves the store as it was, makes no move call and goes on to the
\* next torrent without trying this one again; in a later run the first linked
\* candidate of that name, still without a record, gets add_torrent_magnet again.
C18_RecordsOnlyOnSuccess ==
    /\ [](C18_FailureLeavesNoTrace /\ C18_LaterRunAttempts)
    /\ [][C18_FailingStep]_vars
C18_Witness ==
    \E k \in Torrents :
      /\ search_results[k].name \in download_failed
      /\ calls[k] = <<"find:none", "magnet:true", "upsert:ok">>

\* ---------------------------------------------------------------- C13
OtherTorrents == DOMAIN calls2
Enqueued(log) == \E e \in DOMAIN log : IsMagnet(log[e])
EnqueuedAndRecorded(log) == log = <<"find:none", "magnet:true", "upsert:ok">>
Succeeded(log) == \E e \in DOMAIN log : log[e] = "magnet:true"
\* add_torrent_magnet succeeded for one name in both invocations
DoubleEnqueue(j, k) ==
    /\ search_results[j].name = search_results2[k].name
    /\ Succeeded(calls[j])
    /\ Succeeded(calls2[k])
\* C13 as stated: when the second invocation runs after the first has ended, the
\* two never both enqueue one name.
C13_NoDoubleEnqueueInSequence ==
    after_first => \A j \in Torrents, k \in OtherTorrents : ~DoubleEnqueue(j, k)
\* C13: an invocation calls add_torrent_magnet for a name only after a lookup
\* that saw no record of it, so two invocations that both enqueued one name both
\* looked it up before either wrote; when the second runs after the first has
\* ended this happens only if the first one's save_or_update raised after its
\* enqueue; and inside one invocation a name it has recorded is not enqueued
\* again by a later candidate.
C13_DoubleEnqueueByRaceOrFailedSave ==
    /\ \A k \in Torrents : Enqueued(calls[k]) => calls[k][1] = "find:none"
    /\ \A k \in OtherTorrents : Enqueued(calls2[k]) => calls2[k][1] = "find:none"
    /\ \A j \in Torrents, k \in OtherTorrents :
         (after_first /\ DoubleEnqueue(j, k)) =>
           calls[j] = <<"find:none", "magnet:true", "upsert:raise">>
    /\ \A j, k \in Torrents :
         (j < k /\ search_results[j].name = search_results[k].name
            /\ EnqueuedAndRecorded(calls[j])) => ~Enqueued(calls[k])
    /\ \A j, k \in OtherTorrents :
         (j < k /\ search_results2[j].name = search_results2[k].name
            /\ EnqueuedAndRecorded(calls2[j])) => ~Enqueued(calls2[k])
\* the race: both invocations, overlapping, enqueued and recorded the same name
C13_Witness ==
    /\ ~after_first
    /\ \E j \in Torrents, k \in OtherTorrents :
         /\ DoubleEnqueue(j, k)
         /\ EnqueuedAndRecorded(calls[j])
         /\ EnqueuedAndRecorded(calls2[k])

Next ==
    \/ FetchAnimeList
    \/ FindPlexShowStep
    \/ FindPlexShowReturn
    \/ SearchMissingStep
    \/ SearchMissingDone
    \/ SearchFoundStep
    \/ SearchReturn
    \/ DecideCandidate
    \/ QueueDownloadedTorrentFile
    \/ DownloadTorrentFile
    \/ MoveTorrentToMonitoredDirectory
    \/ DecideDone
    \/ ProcessExit

Spec == Init /\ [][Next]_vars

\* runs one after another, remembering the failed moves across them
NextMoved ==
    \/ FetchAnimeList
    \/ FindPlexShowStep
    \/ FindPlexShowReturn
    \/ SearchMissingStep
    \/ SearchMissingDone
    \/ SearchFoundStep
    \/ SearchReturn
    \/ DecideCandidate
    \/ QueueDownloadedTorrentFile
    \/ DownloadTorrentFile
    \/ MoveTorrentToMonitoredDirectory
    \/ DecideDone
    \/ ProcessExitMoved

SpecMoved == Init /\ [][NextMoved]_vars

\* runs one after another, remembering the failed downloads across them
NextRetry ==
    \/ FetchAnimeList
    \/ FindPlexShowStep
    \/ FindPlexShowReturn
    \/ SearchMissingStep
    \/ SearchMissingDone
    \/ SearchFoundStep
    \/ SearchReturn
    \/ DecideCandidate
    \/ QueueDownloadedTorrentFile
    \/ DownloadTorrentFile
    \/ MoveTorrentToMonitoredDirectory
    \/ DecideDone
    \/ ProcessExitRetry

SpecRetry == Init /\ [][NextRetry]_vars

\* two invocations in their loops, their steps interleaved
NextConcurrent ==
    \/ DecideCandidate
    \/ QueueDownloadedTorrentFile
    \/ DownloadTorrentFile
    \/ MoveTorrentToMonitoredDirectory
    \/ DecideDone
    \/ OtherDecideCandidate
    \/ OtherQueueDownloadedTorrentFile
    \/ OtherDownloadTorrentFile
    \/ OtherMoveTorrentToMonitoredDirectory
    \/ OtherDecideDone

SpecConcurrent == InitConcurrent /\ [][NextConcurrent]_vars
====
